---- MODULE Spec2Model ----
(***************************************************************************)
(* Verification model of the transaction payload subsystem and the account *)
(* entities of iota-sdk:                                                   *)
(*   sdk/src/types/block/payload/transaction/mod.rs  (TransactionPayload)  *)
(*   src/account/types/mod.rs  (OutputData, Transaction, InclusionState,   *)
(*                              AccountIdentifier)                         *)
(* Essence, Unlocks, the byte codec and the transport projections of the   *)
(* nested types live in modules that are not part of the sources at hand;  *)
(* they are modelled after the written specification (sections 3, 4, 6).   *)
(***************************************************************************)
EXTENDS Integers, Sequences, FiniteSets, TLC

VARIABLES
    essence,      \* the TransactionEssence a caller holds
    unlocks,      \* the unlock sequence a caller holds
    payload,      \* Option<TransactionPayload>: <<>> or <<p>>
    bytes,        \* Option<Vec<u8>>: bytes in a packer / unpacker buffer
    dto,          \* Option<TransactionPayloadDto>
    op,           \* the operation that ran last
    verify,       \* the VERIFY parameter of the last unpack
    result,       \* what the last operation returned
    tx,           \* a Transaction record (account side)
    output_data,  \* an OutputData record (account side)
    caller_hrp,   \* the Bech32 human-readable part the caller works with
    prev_state,   \* inclusion_state before the last requested change
    input         \* the argument of the last AccountIdentifier conversion

vars == <<essence, unlocks, payload, bytes, dto, op, verify, result,
          tx, output_data, caller_hrp, prev_state, input>>

-----------------------------------------------------------------------------
(* Bounds of the model.                                                    *)

\* longest input sequence and unlock sequence a caller or a peer supplies
MaxLen == 2
\* longest free-form string handed to AccountIdentifier::from
MaxStrLen == 2

-----------------------------------------------------------------------------
(* Generic helpers: options, results, byte strings.                        *)

None == <<>>
Some(v) == <<v>>

Ok(v) == [ok |-> TRUE, value |-> v]
Err(e) == [ok |-> FALSE, error |-> e]

Take(s, n) == SubSeq(s, 1, n)
Drop(s, n) == SubSeq(s, n + 1, Len(s))
Repeat(b, n) == [i \in 1..n |-> b]

RECURSIVE SeqsUpTo(_, _)
SeqsUpTo(S, n) ==
    IF n = 0 THEN {<<>>}
    ELSE LET shorter == SeqsUpTo(S, n - 1)
         IN  shorter \cup {Append(s, x) : s \in {t \in shorter : Len(t) = n - 1}, x \in S}

RECURSIVE LexLess(_, _)
LexLess(a, b) ==
    IF b = <<>> THEN FALSE
    ELSE IF a = <<>> THEN TRUE
    ELSE IF a[1] # b[1] THEN a[1] < b[1]
    ELSE LexLess(Tail(a), Tail(b))

-----------------------------------------------------------------------------
(* Fixed-width unsigned integers.  A value wider than 31 bits is kept as   *)
(* little-endian 16-bit limbs: u32 = 2 limbs, u64 = 4 limbs.               *)

LimbBase == 2^16

U32Limbs == 2
U64Limbs == 4

LimbsZero(w) == Repeat(0, w)
IsZero(n) == \A i \in 1..Len(n) : n[i] = 0

\* n * 10 + d over the limbs, with the carry out of the top limb
RECURSIVE MulAdd10(_, _)
MulAdd10(n, d) ==
    IF n = <<>> THEN [limbs |-> <<>>, carry |-> d]
    ELSE LET t == n[1] * 10 + d
             rest == MulAdd10(Tail(n), t \div LimbBase)
         IN  [limbs |-> <<t % LimbBase>> \o rest.limbs, carry |-> rest.carry]

\* n \div 10 and n % 10 over the limbs, from the top limb down
RECURSIVE DivMod10(_, _)
DivMod10(n, r) ==
    IF n = <<>> THEN [limbs |-> <<>>, rem |-> r]
    ELSE LET k == Len(n)
             t == r * LimbBase + n[k]
             low == DivMod10(Take(n, k - 1), t % 10)
         IN  [limbs |-> Append(low.limbs, t \div 10), rem |-> low.rem]

\* to_le_bytes of a limb value
RECURSIVE LimbsToLe(_)
LimbsToLe(n) ==
    IF n = <<>> THEN <<>>
    ELSE <<n[1] % 256, n[1] \div 256>> \o LimbsToLe(Tail(n))

RECURSIVE LimbsFromLe(_)
LimbsFromLe(b) ==
    IF b = <<>> THEN <<>>
    ELSE <<b[1] + 256 * b[2]>> \o LimbsFromLe(Drop(b, 2))

\* to_le_bytes of a small integer in `width` bytes
RECURSIVE IntToLe(_, _)
IntToLe(n, width) ==
    IF width = 0 THEN <<>>
    ELSE <<n % 256>> \o IntToLe(n \div 256, width - 1)

RECURSIVE IntFromLe(_)
IntFromLe(b) ==
    IF b = <<>> THEN 0
    ELSE b[1] + 256 * IntFromLe(Tail(b))

-----------------------------------------------------------------------------
(* Decimal and hexadecimal text, as sequences of one-character strings.    *)

DigitChars == <<"0", "1", "2", "3", "4", "5", "6", "7", "8", "9">>
HexChars == DigitChars \o <<"a", "b", "c", "d", "e", "f">>

HexDigitOf == [c \in {HexChars[i] : i \in 1..16} |->
                  (CHOOSE i \in 1..16 : HexChars[i] = c) - 1]

IsHexChar(c) == c \in DOMAIN HexDigitOf
HexValue(c) == HexDigitOf[c]
IsDigit(c) == IsHexChar(c) /\ HexValue(c) < 10
DigitValue(c) == HexValue(c)

\* u64::to_string
RECURSIVE DecDigits(_)
DecDigits(n) ==
    IF IsZero(n) THEN <<>>
    ELSE LET qr == DivMod10(n, 0)
         IN  Append(DecDigits(qr.limbs), DigitChars[qr.rem + 1])

to_string(n) == IF IsZero(n) THEN <<"0">> ELSE DecDigits(n)

\* the digit loop of core::num from_str_radix(_, 10): checked_mul, checked_add
RECURSIVE ParseDigits(_, _)
ParseDigits(s, acc) ==
    IF s = <<>> THEN Ok(acc)
    ELSE IF ~IsDigit(s[1]) THEN Err("InvalidDigit")
    ELSE LET next == MulAdd10(acc, DigitValue(s[1]))
         IN  IF next.carry # 0 THEN Err("PosOverflow")
             ELSE ParseDigits(Tail(s), next.limbs)

\* <uN as FromStr>::from_str for an unsigned type of `width` limbs
from_str(s, width) ==
    IF s = <<>> THEN Err("Empty")
    ELSE IF s = <<"+">> \/ s = <<"-">> THEN Err("InvalidDigit")
    ELSE ParseDigits(IF s[1] = "+" THEN Tail(s) ELSE s, LimbsZero(width))

\* hex encoding of a byte string, two lowercase characters a byte
RECURSIVE hex_encode(_)
hex_encode(b) ==
    IF b = <<>> THEN <<>>
    ELSE <<HexChars[(b[1] \div 16) + 1], HexChars[(b[1] % 16) + 1]>> \o hex_encode(Tail(b))

RECURSIVE HexPairs(_)
HexPairs(s) ==
    IF s = <<>> THEN <<>>
    ELSE <<16 * HexValue(s[1]) + HexValue(s[2])>> \o HexPairs(Drop(s, 2))

hex_decode(s, len) ==
    IF Len(s) # 2 * len \/ \E i \in 1..Len(s) : ~IsHexChar(s[i])
    THEN Err([kind |-> "InvalidHex"])
    ELSE Ok(HexPairs(s))

-----------------------------------------------------------------------------
(* Errors (section 7 of the specification; Error of types::block).         *)

InputUnlockCountMismatch(i, u) ==
    [kind |-> "InputUnlockCountMismatch", input_count |-> i, unlock_count |-> u]
InsufficientBytes(need, have) == [kind |-> "InsufficientBytes", need |-> need, have |-> have]
InvalidEssenceKind(tag) == [kind |-> "InvalidEssenceKind", tag |-> tag]
InvalidInputKind(tag) == [kind |-> "InvalidInputKind", tag |-> tag]
InvalidOutputKind(tag) == [kind |-> "InvalidOutputKind", tag |-> tag]
InvalidUnlockKind(tag) == [kind |-> "InvalidUnlockKind", tag |-> tag]
InputsCountOutOfRange(n) == [kind |-> "InputsCountOutOfRange", count |-> n]
OutputsCountOutOfRange(n) == [kind |-> "OutputsCountOutOfRange", count |-> n]
UnlocksCountOutOfRange(n) == [kind |-> "UnlocksCountOutOfRange", count |-> n]
DuplicateInput(i) == [kind |-> "DuplicateInput", index |-> i]
InputsNotSorted == [kind |-> "InputsNotSorted"]
ReferenceUnlockOutOfRange(i, j) ==
    [kind |-> "ReferenceUnlockOutOfRange", index |-> i, pointer |-> j]
ReferenceUnlockToNonSignature(i) == [kind |-> "ReferenceUnlockToNonSignature", index |-> i]
InvalidNumericString == [kind |-> "InvalidNumericString"]
UnknownKind(k) == [kind |-> "UnknownKind", tag |-> k]

-----------------------------------------------------------------------------
(* Essence and unlocks: data and invariants (specification section 3).     *)

TransactionIdLen == 32
InputsCommitmentLen == 32
PublicKeyLen == 32
SignatureLen == 64

\* wire tags
RegularEssenceKind == 0
UtxoInputKind == 0
BasicOutputKind == 3
SignatureUnlockKind == 0
ReferenceUnlockKind == 1

\* ProtocolParameters, the visitor handed to every decode
protocol_parameters == [max_inputs |-> 128, max_outputs |-> 128]

Input(txid, index) == [transaction_id |-> txid, index |-> index]
Output(amount) == [amount |-> amount]
SignatureUnlock(pk, sig) == [kind |-> "Signature", public_key |-> pk, signature |-> sig]
ReferenceUnlock(j) == [kind |-> "Reference", index |-> j]

RegularTransactionEssence(network_id, inputs, commitment, outputs, tagged) ==
    [network_id |-> network_id, inputs |-> inputs, inputs_commitment |-> commitment,
     outputs |-> outputs, payload |-> tagged]

\* the canonical order of inputs: by transaction id, then by output index
InputKey(i) == i.transaction_id \o <<i.index \div 256, i.index % 256>>

\* E1, E2 of the essence; Ok or the first error
verify_essence(e, pp) ==
    LET n == Len(e.inputs)
        m == Len(e.outputs)
    IN  IF n < 1 \/ n > pp.max_inputs THEN Err(InputsCountOutOfRange(n))
        ELSE IF \E i \in 1..n : \E j \in 1..(i - 1) : e.inputs[j] = e.inputs[i]
             THEN Err(DuplicateInput(
                      CHOOSE i \in 1..n : /\ \E j \in 1..(i - 1) : e.inputs[j] = e.inputs[i]
                                          /\ \A k \in 1..(i - 1) :
                                                ~\E j \in 1..(k - 1) : e.inputs[j] = e.inputs[k]))
        ELSE IF \E i \in 1..(n - 1) : ~LexLess(InputKey(e.inputs[i]), InputKey(e.inputs[i + 1]))
             THEN Err(InputsNotSorted)
        ELSE IF m < 1 \/ m > pp.max_outputs THEN Err(OutputsCountOutOfRange(m))
        ELSE Ok(e)

\* length bounds and U1 of the unlocks; positions are 0-based as in the code
verify_unlocks(u, pp) ==
    LET n == Len(u)
        BadRange(i) == u[i].kind = "Reference" /\ u[i].index >= i - 1
        BadTarget(i) == u[i].kind = "Reference" /\ u[i].index < i - 1
                        /\ u[u[i].index + 1].kind # "Signature"
        Bad(i) == BadRange(i) \/ BadTarget(i)
    IN  IF n < 1 \/ n > pp.max_inputs THEN Err(UnlocksCountOutOfRange(n))
        ELSE IF \E i \in 1..n : Bad(i)
             THEN LET i == CHOOSE k \in 1..n : Bad(k) /\ \A l \in 1..(k - 1) : ~Bad(l)
                  IN  IF BadRange(i) THEN Err(ReferenceUnlockOutOfRange(i - 1, u[i].index))
                      ELSE Err(ReferenceUnlockToNonSignature(i - 1))
        ELSE Ok(u)

\* Unlocks::new
Unlocks_new(u) == verify_unlocks(u, protocol_parameters)

-----------------------------------------------------------------------------
(* The byte codec of essence and unlocks (specification 4.1, 4.2, 4.3, 6). *)

pack_input(i) == <<UtxoInputKind>> \o i.transaction_id \o IntToLe(i.index, 2)
pack_output(o) == <<BasicOutputKind>> \o LimbsToLe(o.amount)
pack_unlock(u) ==
    IF u.kind = "Signature"
    THEN <<SignatureUnlockKind>> \o u.public_key \o u.signature
    ELSE <<ReferenceUnlockKind>> \o IntToLe(u.index, 2)

RECURSIVE pack_inputs(_)
pack_inputs(s) == IF s = <<>> THEN <<>> ELSE pack_input(s[1]) \o pack_inputs(Tail(s))

RECURSIVE pack_outputs(_)
pack_outputs(s) == IF s = <<>> THEN <<>> ELSE pack_output(s[1]) \o pack_outputs(Tail(s))

RECURSIVE pack_unlock_seq(_)
pack_unlock_seq(s) == IF s = <<>> THEN <<>> ELSE pack_unlock(s[1]) \o pack_unlock_seq(Tail(s))

\* TransactionEssence::pack: tag, then the fields in wire order
pack_essence(e) ==
    <<RegularEssenceKind>>
    \o LimbsToLe(e.network_id)
    \o e.inputs_commitment
    \o IntToLe(Len(e.inputs), 2) \o pack_inputs(e.inputs)
    \o IntToLe(Len(e.outputs), 2) \o pack_outputs(e.outputs)
    \o (IF e.payload = None THEN IntToLe(0, 4)
        ELSE IntToLe(Len(e.payload[1]), 4) \o e.payload[1])

\* Unlocks::pack: u16 count, then the unlocks
pack_unlocks(u) == IntToLe(Len(u), 2) \o pack_unlock_seq(u)

\* results of the unpacker: the value and the bytes not yet consumed
POk(v, rest) == [ok |-> TRUE, value |-> v, rest |-> rest]

\* the `?` operator: stop at an error, else go on with the successful result
Bind(r, F(_)) == IF r.ok THEN F(r) ELSE r

\* UnpackError<T, U>: an error of the type being decoded, or of the unpacker
Packable(e) == [variant |-> "Packable", error |-> e]
Unpacker(e) == [variant |-> "Unpacker", error |-> e]

unpack_bytes(b, n) ==
    IF Len(b) < n THEN Err(Unpacker(InsufficientBytes(n, Len(b)))) ELSE POk(Take(b, n), Drop(b, n))

unpack_int(b, width) ==
    Bind(unpack_bytes(b, width), LAMBDA r : POk(IntFromLe(r.value), r.rest))

unpack_input(b) ==
    Bind(unpack_int(b, 1), LAMBDA k :
      IF k.value # UtxoInputKind THEN Err(Packable(InvalidInputKind(k.value)))
      ELSE Bind(unpack_bytes(k.rest, TransactionIdLen), LAMBDA t :
           Bind(unpack_int(t.rest, 2), LAMBDA i :
           POk(Input(t.value, i.value), i.rest))))

unpack_output(b) ==
    Bind(unpack_int(b, 1), LAMBDA k :
      IF k.value # BasicOutputKind THEN Err(Packable(InvalidOutputKind(k.value)))
      ELSE Bind(unpack_bytes(k.rest, 2 * U64Limbs), LAMBDA a :
           POk(Output(LimbsFromLe(a.value)), a.rest)))

unpack_unlock(b) ==
    Bind(unpack_int(b, 1), LAMBDA k :
      IF k.value = SignatureUnlockKind
      THEN Bind(unpack_bytes(k.rest, PublicKeyLen), LAMBDA pk :
           Bind(unpack_bytes(pk.rest, SignatureLen), LAMBDA sig :
           POk(SignatureUnlock(pk.value, sig.value), sig.rest)))
      ELSE IF k.value = ReferenceUnlockKind
      THEN Bind(unpack_int(k.rest, 2), LAMBDA j : POk(ReferenceUnlock(j.value), j.rest))
      ELSE Err(Packable(InvalidUnlockKind(k.value))))

RECURSIVE unpack_inputs(_, _)
unpack_inputs(b, n) ==
    IF n = 0 THEN POk(<<>>, b)
    ELSE Bind(unpack_input(b), LAMBDA x :
         Bind(unpack_inputs(x.rest, n - 1), LAMBDA xs :
         POk(<<x.value>> \o xs.value, xs.rest)))

RECURSIVE unpack_outputs(_, _)
unpack_outputs(b, n) ==
    IF n = 0 THEN POk(<<>>, b)
    ELSE Bind(unpack_output(b), LAMBDA x :
         Bind(unpack_outputs(x.rest, n - 1), LAMBDA xs :
         POk(<<x.value>> \o xs.value, xs.rest)))

RECURSIVE unpack_unlock_seq(_, _)
unpack_unlock_seq(b, n) ==
    IF n = 0 THEN POk(<<>>, b)
    ELSE Bind(unpack_unlock(b), LAMBDA x :
         Bind(unpack_unlock_seq(x.rest, n - 1), LAMBDA xs :
         POk(<<x.value>> \o xs.value, xs.rest)))

\* the checks a decode runs on the decoded value when VERIFY is set
Verified(VERIFY, checked, r) ==
    IF VERIFY /\ ~checked.ok THEN Err(Packable(checked.error)) ELSE r

\* TransactionEssence::unpack::<_, VERIFY>
unpack_essence(b, VERIFY, visitor) ==
    Bind(unpack_int(b, 1), LAMBDA tag :
      IF tag.value # RegularEssenceKind THEN Err(Packable(InvalidEssenceKind(tag.value)))
      ELSE Bind(unpack_bytes(tag.rest, 2 * U64Limbs), LAMBDA nid :
           Bind(unpack_bytes(nid.rest, InputsCommitmentLen), LAMBDA com :
           Bind(unpack_int(com.rest, 2), LAMBDA ni :
           Bind(unpack_inputs(ni.rest, ni.value), LAMBDA ins :
           Bind(unpack_int(ins.rest, 2), LAMBDA no :
           Bind(unpack_outputs(no.rest, no.value), LAMBDA outs :
           Bind(unpack_int(outs.rest, 4), LAMBDA pl :
           Bind(unpack_bytes(pl.rest, pl.value), LAMBDA pb :
           Bind(POk(RegularTransactionEssence(
                        LimbsFromLe(nid.value), ins.value, com.value, outs.value,
                        IF pl.value = 0 THEN None ELSE Some(pb.value)),
                    pb.rest), LAMBDA e :
           Verified(VERIFY, verify_essence(e.value, visitor), e)))))))))))

\* Unlocks::unpack::<_, VERIFY>
unpack_unlocks(b, VERIFY) ==
    Bind(unpack_int(b, 2), LAMBDA n :
    Bind(unpack_unlock_seq(n.rest, n.value), LAMBDA us :
    Verified(VERIFY, verify_unlocks(us.value, protocol_parameters), us)))

-----------------------------------------------------------------------------
(* Transport projections of essence and unlocks (specification 4.5).       *)

input_to_dto(i) ==
    [type |-> UtxoInputKind, transactionId |-> hex_encode(i.transaction_id),
     transactionOutputIndex |-> i.index]
output_to_dto(o) == [type |-> BasicOutputKind, amount |-> to_string(o.amount)]

\* From<&Unlock> for UnlockDto
unlock_to_dto(u) ==
    IF u.kind = "Signature"
    THEN [type |-> SignatureUnlockKind,
          signature |-> [publicKey |-> hex_encode(u.public_key),
                         signature |-> hex_encode(u.signature)]]
    ELSE [type |-> ReferenceUnlockKind, reference |-> u.index]

\* From<&TransactionEssence> for TransactionEssenceDto
essence_to_dto(e) ==
    [type |-> RegularEssenceKind,
     networkId |-> to_string(e.network_id),
     inputs |-> [i \in 1..Len(e.inputs) |-> input_to_dto(e.inputs[i])],
     inputsCommitment |-> hex_encode(e.inputs_commitment),
     outputs |-> [i \in 1..Len(e.outputs) |-> output_to_dto(e.outputs[i])],
     payload |-> IF e.payload = None THEN None ELSE Some(hex_encode(e.payload[1]))]

parse_u64(s) ==
    IF from_str(s, U64Limbs).ok THEN from_str(s, U64Limbs) ELSE Err(InvalidNumericString)

input_try_from_dto(d) ==
    IF d.type # UtxoInputKind THEN Err(UnknownKind(d.type))
    ELSE Bind(hex_decode(d.transactionId, TransactionIdLen), LAMBDA t :
         Ok(Input(t.value, d.transactionOutputIndex)))

output_try_from_dto(d) ==
    IF d.type # BasicOutputKind THEN Err(UnknownKind(d.type))
    ELSE Bind(parse_u64(d.amount), LAMBDA a : Ok(Output(a.value)))

\* TryFrom<&UnlockDto> for Unlock
unlock_try_from_dto(d) ==
    IF d.type = SignatureUnlockKind
    THEN Bind(hex_decode(d.signature.publicKey, PublicKeyLen), LAMBDA pk :
         Bind(hex_decode(d.signature.signature, SignatureLen), LAMBDA sig :
         Ok(SignatureUnlock(pk.value, sig.value))))
    ELSE IF d.type = ReferenceUnlockKind THEN Ok(ReferenceUnlock(d.reference))
    ELSE Err(UnknownKind(d.type))

RECURSIVE inputs_try_from_dto(_)
inputs_try_from_dto(s) ==
    IF s = <<>> THEN Ok(<<>>)
    ELSE Bind(input_try_from_dto(s[1]), LAMBDA x :
         Bind(inputs_try_from_dto(Tail(s)), LAMBDA xs :
         Ok(<<x.value>> \o xs.value)))

RECURSIVE outputs_try_from_dto(_)
outputs_try_from_dto(s) ==
    IF s = <<>> THEN Ok(<<>>)
    ELSE Bind(output_try_from_dto(s[1]), LAMBDA x :
         Bind(outputs_try_from_dto(Tail(s)), LAMBDA xs :
         Ok(<<x.value>> \o xs.value)))

tagged_try_from_dto(p) ==
    IF p = None THEN Ok(None)
    ELSE Bind(hex_decode(p[1], Len(p[1]) \div 2), LAMBDA h : Ok(Some(h.value)))

\* the field-by-field conversion shared by both essence entry points
essence_parse_dto(d) ==
    IF d.type # RegularEssenceKind THEN Err(UnknownKind(d.type))
    ELSE Bind(parse_u64(d.networkId), LAMBDA nid :
         Bind(inputs_try_from_dto(d.inputs), LAMBDA ins :
         Bind(hex_decode(d.inputsCommitment, InputsCommitmentLen), LAMBDA com :
         Bind(outputs_try_from_dto(d.outputs), LAMBDA outs :
         Bind(tagged_try_from_dto(d.payload), LAMBDA pl :
         Ok(RegularTransactionEssence(nid.value, ins.value, com.value,
                                      outs.value, pl.value)))))))

\* TransactionEssence::try_from_dto: full validation against the protocol
essence_try_from_dto(d, pp) ==
    Bind(essence_parse_dto(d), LAMBDA e : verify_essence(e.value, pp))

\* TransactionEssence::try_from_dto_unverified: replay of trusted data
essence_try_from_dto_unverified(d) == essence_parse_dto(d)

-----------------------------------------------------------------------------
(* TransactionPayload (sdk/src/types/block/payload/transaction/mod.rs).    *)

KIND == 6

\* Blake2b256, as a collision-free digest of its whole input
Blake2b256(data) == [blake2b256 |-> data]
TransactionId_new(digest) == [transaction_id |-> digest]

TransactionPayload(e, u) == [essence |-> e, unlocks |-> u]

\* a slip: only too few unlocks are refused
verify_essence_unlocks_too_few(e, u) ==
    IF Len(e.inputs) > Len(u)
    THEN Err(InputUnlockCountMismatch(Len(e.inputs), Len(u)))
    ELSE Ok(<<>>)

verify_essence_unlocks(e, u) ==
    IF Len(e.inputs) # Len(u)
    THEN Err(InputUnlockCountMismatch(Len(e.inputs), Len(u)))
    ELSE Ok(<<>>)

\* TransactionPayload::new
new(e, u) ==
    Bind(verify_essence_unlocks(e, u), LAMBDA v : Ok(TransactionPayload(e, u)))

\* a slip: the unlocks are written before the essence
pack_unlocks_first(p) == pack_unlocks(p.unlocks) \o pack_essence(p.essence)

\* Packable::pack
pack(p) == pack_essence(p.essence) \o pack_unlocks(p.unlocks)

\* PackableExt::pack_to_vec
pack_to_vec(p) == pack(p)

\* a slip: the kind is hashed big-endian
kind_to_be_bytes == <<0, 0, 0, KIND>>

\* u32::to_le_bytes of KIND
kind_to_le_bytes == IntToLe(KIND, 4)

\* TransactionPayload::id
id(p) == TransactionId_new(Blake2b256(kind_to_le_bytes \o pack_to_vec(p)))

\* a slip: the cross-field check runs whatever VERIFY says
unpack_always_checks(unpacker, VERIFY, visitor) ==
    Bind(unpack_essence(unpacker, VERIFY, visitor), LAMBDA e :
    Bind(unpack_unlocks(e.rest, VERIFY), LAMBDA u :
    Verified(TRUE, verify_essence_unlocks(e.value, u.value),
             POk(TransactionPayload(e.value, u.value), u.rest))))

\* Packable::unpack::<_, VERIFY>
unpack(unpacker, VERIFY, visitor) ==
    Bind(unpack_essence(unpacker, VERIFY, visitor), LAMBDA e :
    Bind(unpack_unlocks(e.rest, VERIFY), LAMBDA u :
    Verified(VERIFY, verify_essence_unlocks(e.value, u.value),
             POk(TransactionPayload(e.value, u.value), u.rest))))

\* From<&TransactionPayload> for TransactionPayloadDto
TransactionPayloadDto_from(value) ==
    [kind |-> KIND,
     essence |-> essence_to_dto(value.essence),
     unlocks |-> [i \in 1..Len(value.unlocks) |-> unlock_to_dto(value.unlocks[i])]]

\* the loop of _try_from_dto: convert in order, stop at the first error
RECURSIVE unlocks_try_from_dto(_)
unlocks_try_from_dto(s) ==
    IF s = <<>> THEN Ok(<<>>)
    ELSE Bind(unlock_try_from_dto(s[1]), LAMBDA x :
         Bind(unlocks_try_from_dto(Tail(s)), LAMBDA xs :
         Ok(<<x.value>> \o xs.value)))

\* a slip: the unlocks are collected in reverse order
RECURSIVE unlocks_try_from_dto_reversed(_)
unlocks_try_from_dto_reversed(s) ==
    IF s = <<>> THEN Ok(<<>>)
    ELSE Bind(unlock_try_from_dto(s[1]), LAMBDA x :
         Bind(unlocks_try_from_dto_reversed(Tail(s)), LAMBDA xs :
         Ok(Append(xs.value, x.value))))

try_from_dto_inner_reversed(value, transaction_essence) ==
    Bind(unlocks_try_from_dto_reversed(value.unlocks), LAMBDA us :
    Bind(Unlocks_new(us.value), LAMBDA checked :
    new(transaction_essence, checked.value)))

\* a slip: the payload is assembled without going through new
try_from_dto_inner_unchecked(value, transaction_essence) ==
    Bind(unlocks_try_from_dto(value.unlocks), LAMBDA us :
    Bind(Unlocks_new(us.value), LAMBDA checked :
    Ok(TransactionPayload(transaction_essence, checked.value))))

\* TransactionPayload::_try_from_dto
try_from_dto_inner(value, transaction_essence) ==
    Bind(unlocks_try_from_dto(value.unlocks), LAMBDA us :
    Bind(Unlocks_new(us.value), LAMBDA checked :
    new(transaction_essence, checked.value)))

\* TransactionPayload::try_from_dto
try_from_dto(value, pp) ==
    Bind(essence_try_from_dto(value.essence, pp), LAMBDA e :
    try_from_dto_inner(value, e.value))

\* TransactionPayload::try_from_dto_unverified
try_from_dto_unverified(value) ==
    Bind(essence_try_from_dto_unverified(value.essence), LAMBDA e :
    try_from_dto_inner(value, e.value))

-----------------------------------------------------------------------------
(* The values callers and peers work with.                                 *)

TxId(k) == Append(Repeat(170, TransactionIdLen - 1), k)

InputDomain == {Input(TxId(0), 0), Input(TxId(0), 1), Input(TxId(1), 0)}

SampleSignature == SignatureUnlock(Repeat(17, PublicKeyLen), Repeat(34, SignatureLen))
UnlockDomain == {SampleSignature, ReferenceUnlock(0), ReferenceUnlock(1)}

\* 8453507715857476362, the network id of the specification's scenario 1
ScenarioNetworkId == <<27402, 40373, 58490, 30032>>
U64Max == <<65535, 65535, 65535, 65535>>
\* 1_000_000 tokens
MillionTokens == <<16960, 15, 0, 0>>

\* network id, outputs and optional tagged payload of the essences at hand
EssenceRest ==
    { [network_id |-> ScenarioNetworkId, outputs |-> <<Output(MillionTokens)>>,
       tagged |-> None],
      [network_id |-> U64Max, outputs |-> <<Output(MillionTokens), Output(U64Max)>>,
       tagged |-> Some(<<1, 2, 254>>)],
      [network_id |-> LimbsZero(U64Limbs), outputs |-> <<>>, tagged |-> None] }

EssenceDomain ==
    { RegularTransactionEssence(r.network_id, ins, Repeat(204, InputsCommitmentLen),
                                r.outputs, r.tagged) :
        r \in EssenceRest, ins \in SeqsUpTo(InputDomain, MaxLen) }

UnlocksDomain == SeqsUpTo(UnlockDomain, MaxLen)

IdleTx == [inclusion_state |-> "Pending"]
IdleOutput == [is_spent |-> FALSE]

\* both parts came out of their validating constructors
Constructible(e, u) == verify_essence(e, protocol_parameters).ok /\ Unlocks_new(u).ok

InitPayload ==
    /\ essence \in EssenceDomain
    /\ unlocks \in UnlocksDomain
    /\ payload = None
    /\ bytes = None
    /\ dto = None
    /\ op = "init"
    /\ verify = FALSE
    /\ result = Ok(<<>>)
    /\ tx = IdleTx
    /\ output_data = IdleOutput
    /\ caller_hrp = "atoi"
    /\ prev_state = "Pending"
    /\ input = <<>>

account_vars == <<tx, output_data, caller_hrp, prev_state, input>>

-----------------------------------------------------------------------------
(* Operations on a transaction payload.                                    *)

\* a caller builds a payload from an essence and unlocks it constructed
New ==
    /\ Constructible(essence, unlocks)
    /\ LET r == new(essence, unlocks)
       IN  /\ result' = r
           /\ payload' = IF r.ok THEN Some(r.value) ELSE payload
    /\ op' = "new"
    /\ UNCHANGED <<essence, unlocks, bytes, dto, verify, account_vars>>

\* the payload at hand is packed into a byte buffer
Pack ==
    /\ payload # None
    /\ bytes' = Some(pack_to_vec(payload[1]))
    /\ op' = "pack"
    /\ result' = Ok(<<>>)
    /\ UNCHANGED <<essence, unlocks, payload, dto, verify, account_vars>>

\* bytes arrive from a peer that encoded an essence and unlocks of its own
Receive ==
    /\ bytes' = Some(pack_essence(essence) \o pack_unlocks(unlocks))
    /\ op' = "receive"
    /\ result' = Ok(<<>>)
    /\ UNCHANGED <<essence, unlocks, payload, dto, verify, account_vars>>

\* the buffer is decoded, with or without verification
Unpack(VERIFY) ==
    /\ bytes # None
    /\ LET r == unpack(bytes[1], VERIFY, protocol_parameters)
       IN  /\ result' = r
           /\ payload' = IF r.ok THEN Some(r.value) ELSE payload
    /\ op' = "unpack"
    /\ verify' = VERIFY
    /\ UNCHANGED <<essence, unlocks, bytes, dto, account_vars>>

\* the identifier of the payload at hand
Id ==
    /\ payload # None
    /\ result' = Ok(id(payload[1]))
    /\ op' = "id"
    /\ UNCHANGED <<essence, unlocks, payload, bytes, dto, verify, account_vars>>

\* the payload at hand is projected for transport
ToDto ==
    /\ payload # None
    /\ dto' = Some(TransactionPayloadDto_from(payload[1]))
    /\ op' = "to_dto"
    /\ result' = Ok(<<>>)
    /\ UNCHANGED <<essence, unlocks, payload, bytes, verify, account_vars>>

\* a projection arrives from outside: any essence with any list of unlocks
ReceiveDto ==
    /\ dto' = Some([kind |-> KIND,
                    essence |-> essence_to_dto(essence),
                    unlocks |-> [i \in 1..Len(unlocks) |-> unlock_to_dto(unlocks[i])]])
    /\ op' = "receive_dto"
    /\ result' = Ok(<<>>)
    /\ UNCHANGED <<essence, unlocks, payload, bytes, verify, account_vars>>

TryFromDto ==
    /\ dto # None
    /\ LET r == try_from_dto(dto[1], protocol_parameters)
       IN  /\ result' = r
           /\ payload' = IF r.ok THEN Some(r.value) ELSE payload
    /\ op' = "try_from_dto"
    /\ UNCHANGED <<essence, unlocks, bytes, dto, verify, account_vars>>

TryFromDtoUnverified ==
    /\ dto # None
    /\ LET r == try_from_dto_unverified(dto[1])
       IN  /\ result' = r
           /\ payload' = IF r.ok THEN Some(r.value) ELSE payload
    /\ op' = "try_from_dto_unverified"
    /\ UNCHANGED <<essence, unlocks, bytes, dto, verify, account_vars>>

NextCodec ==
    \/ New
    \/ Pack
    \/ Receive
    \/ \E VERIFY \in BOOLEAN : Unpack(VERIFY)
    \/ Id

NextDto ==
    \/ New
    \/ ToDto
    \/ ReceiveDto
    \/ TryFromDto
    \/ TryFromDtoUnverified

SpecCodec == InitPayload /\ [][NextCodec]_vars
SpecDto == InitPayload /\ [][NextDto]_vars

-----------------------------------------------------------------------------
(* Properties of the transaction payload.                                  *)

InputCount == Len(essence.inputs)
UnlockCount == Len(unlocks)
\* the bytes a peer produces for the essence and unlocks at hand
PartsBytes == pack_essence(essence) \o pack_unlocks(unlocks)

\* C1: new fails with InputUnlockCountMismatch{input count, unlock count}
\* exactly when the two counts differ; otherwise it returns a payload whose
\* essence and unlocks are the arguments, so a payload from new has as many
\* unlocks as inputs.
C1_NewChecksCounts ==
    op = "new" =>
        /\ (~result.ok) <=> (InputCount # UnlockCount)
        /\ ~result.ok => result = Err(InputUnlockCountMismatch(InputCount, UnlockCount))
        /\ result.ok =>
            /\ result.value.essence = essence
            /\ result.value.unlocks = unlocks
            /\ payload = Some(result.value)
            /\ Len(result.value.essence.inputs) = Len(result.value.unlocks)

\* new was called with two inputs and one unlock and refused them
C1_Witness ==
    /\ op = "new"
    /\ InputCount = 2
    /\ UnlockCount = 1
    /\ result = Err(InputUnlockCountMismatch(2, 1))

\* C2: bytes that encode a well-formed essence and well-formed unlocks of
\* different counts fail a verified unpack with the error new returns for
\* them, and pass an unverified unpack, which returns exactly those parts.
C2_UnpackMismatch ==
    ( /\ op = "unpack"
      /\ bytes = Some(PartsBytes)
      /\ Constructible(essence, unlocks)
      /\ InputCount # UnlockCount ) =>
        /\ verify =>
            /\ result = Err(Packable(InputUnlockCountMismatch(InputCount, UnlockCount)))
            /\ result.error.error = new(essence, unlocks).error
        /\ ~verify =>
            /\ result.ok
            /\ result.value = TransactionPayload(essence, unlocks)
            /\ payload = Some(result.value)

\* an unverified unpack returned a payload whose counts differ
C2_Witness ==
    /\ op = "unpack"
    /\ ~verify
    /\ result.ok
    /\ Constructible(result.value.essence, result.value.unlocks)
    /\ Len(result.value.essence.inputs) = 2
    /\ Len(result.value.unlocks) = 1

\* C3: a verified unpack of the bytes pack wrote for a valid payload returns
\* that payload and leaves no byte unread; the essence decoder stops exactly
\* where the unlocks begin.
C3_PackUnpackRoundTrip ==
    ( /\ op = "unpack"
      /\ verify
      /\ Constructible(essence, unlocks)
      /\ new(essence, unlocks).ok
      /\ bytes = Some(pack_to_vec(new(essence, unlocks).value)) ) =>
        /\ result.ok
        /\ result.value = new(essence, unlocks).value
        /\ result.rest = <<>>
        /\ unpack_essence(bytes[1], TRUE, protocol_parameters).rest = pack_unlocks(unlocks)

\* a verified unpack returned a two-input payload with a reference unlock
C3_Witness ==
    /\ op = "unpack"
    /\ verify
    /\ result.ok
    /\ result.rest = <<>>
    /\ Len(result.value.essence.inputs) = 2
    /\ result.value.unlocks[2] = ReferenceUnlock(0)
    /\ result.value.essence.payload # None

\* C4: id is Blake2b256 over 06 00 00 00, then the packed essence, then the
\* packed unlocks; pack itself writes no kind; payloads with equal packed
\* bytes have equal ids, and decoding the packed bytes keeps the id.
C4_IdOfPackedBytes ==
    op = "id" =>
        LET p == payload[1]
            packed == pack_to_vec(p)
        IN  /\ packed = pack_essence(p.essence) \o pack_unlocks(p.unlocks)
            /\ result.value = TransactionId_new(Blake2b256(
                   <<6, 0, 0, 0>> \o pack_essence(p.essence) \o pack_unlocks(p.unlocks)))
            /\ \A u \in UnlocksDomain :
                   LET q == TransactionPayload(essence, u)
                   IN  pack_to_vec(q) = packed => id(q) = result.value
            /\ \A v \in BOOLEAN :
                   LET r == unpack(packed, v, protocol_parameters)
                   IN  /\ r.ok => id(r.value) = result.value
                       /\ (v = FALSE \/ (Constructible(p.essence, p.unlocks)
                                         /\ Len(p.essence.inputs) = Len(p.unlocks))) => r.ok

\* the id of a valid payload was computed after it came back from its bytes
C4_Witness ==
    /\ op = "id"
    /\ payload # None
    /\ bytes = Some(pack_to_vec(payload[1]))
    /\ Constructible(payload[1].essence, payload[1].unlocks)
    /\ Len(payload[1].essence.inputs) = Len(payload[1].unlocks)
    /\ result.ok

\* the payload new builds from the essence and unlocks at hand, if any
Built == new(essence, unlocks)

\* C8: the projection of a valid payload has kind 6 and the unlocks in order,
\* and either entry point turns it back into the same payload.
C8_DtoRoundTrip ==
    /\ ( op = "to_dto" =>
            /\ dto[1].kind = 6
            /\ dto[1].essence = essence_to_dto(payload[1].essence)
            /\ Len(dto[1].unlocks) = Len(payload[1].unlocks)
            /\ \A i \in 1..Len(dto[1].unlocks) :
                   dto[1].unlocks[i] = unlock_to_dto(payload[1].unlocks[i]) )
    /\ ( ( /\ op \in {"try_from_dto", "try_from_dto_unverified"}
           /\ Constructible(essence, unlocks)
           /\ Built.ok
           /\ dto = Some(TransactionPayloadDto_from(Built.value)) ) =>
             result = Ok(Built.value) )

\* the unverified entry point rebuilt a two-unlock payload from its projection
C8_Witness ==
    /\ op = "try_from_dto_unverified"
    /\ result.ok
    /\ dto = Some(TransactionPayloadDto_from(result.value))
    /\ Len(result.value.unlocks) = 2
    /\ result.value.unlocks[2] = ReferenceUnlock(0)

DtoInputCount == Len(dto[1].essence.inputs)
DtoUnlockCount == Len(dto[1].unlocks)

\* C9 as stated, for projections whose essence is itself valid: the
\* unverified entry point answers every projection whose counts differ with
\* InputUnlockCountMismatch, exactly as try_from_dto does.
C9_AsStated ==
    ( /\ op = "try_from_dto_unverified"
      /\ essence_try_from_dto(dto[1].essence, protocol_parameters).ok
      /\ DtoInputCount # DtoUnlockCount ) =>
        /\ result = Err(InputUnlockCountMismatch(DtoInputCount, DtoUnlockCount))
        /\ result = try_from_dto(dto[1], protocol_parameters)

\* C9, amended: neither entry point returns a payload for a projection whose
\* counts differ.  The unverified one fails with InputUnlockCountMismatch
\* when the essence converts and the unlocks by themselves are a valid
\* Unlocks, and with the error of Unlocks::new when they are not;
\* try_from_dto fails the same way whenever the essence passes the protocol
\* validation.  Every payload either entry point returns has as many unlocks
\* as inputs.
C9_UnverifiedKeepsCounts ==
    /\ ( ( /\ op \in {"try_from_dto", "try_from_dto_unverified"}
           /\ DtoInputCount # DtoUnlockCount ) => ~result.ok )
    /\ ( ( /\ op = "try_from_dto_unverified"
           /\ DtoInputCount # DtoUnlockCount ) =>
            LET us == unlocks_try_from_dto(dto[1].unlocks)
                e == essence_try_from_dto_unverified(dto[1].essence)
                full == essence_try_from_dto(dto[1].essence, protocol_parameters)
            IN  /\ (e.ok /\ us.ok /\ Unlocks_new(us.value).ok) =>
                       result = Err(InputUnlockCountMismatch(DtoInputCount, DtoUnlockCount))
                /\ (e.ok /\ us.ok /\ ~Unlocks_new(us.value).ok) =>
                       result = Unlocks_new(us.value)
                /\ full.ok => try_from_dto(dto[1], protocol_parameters) = result
                /\ ~try_from_dto(dto[1], protocol_parameters).ok )
    /\ ( ( /\ op \in {"try_from_dto", "try_from_dto_unverified"}
           /\ result.ok ) =>
            Len(result.value.essence.inputs) = Len(result.value.unlocks) )

\* the unverified entry point refused two inputs with one unlock
C9_Witness ==
    /\ op = "try_from_dto_unverified"
    /\ DtoInputCount = 2
    /\ DtoUnlockCount = 1
    /\ result = Err(InputUnlockCountMismatch(2, 1))

-----------------------------------------------------------------------------
(* Account entities (src/account/types/mod.rs).                            *)

InclusionState == {"Pending", "Confirmed", "Conflicting", "UnknownPruned"}
TerminalStates == InclusionState \ {"Pending"}

U128Limbs == 8
BlockIdLen == 32
AddressLen == 32

\* Transaction
Transaction(p, block_id, inclusion_state, timestamp, network_id, incoming) ==
    [payload |-> p, block_id |-> block_id, inclusion_state |-> inclusion_state,
     timestamp |-> timestamp, network_id |-> network_id, incoming |-> incoming]

\* From<&Transaction> for TransactionDto
TransactionDto_from(value) ==
    [payload |-> TransactionPayloadDto_from(value.payload),
     blockId |-> value.block_id,
     inclusionState |-> value.inclusion_state,
     timestamp |-> to_string(value.timestamp),
     networkId |-> to_string(value.network_id),
     incoming |-> value.incoming]

IllegalTransition(from, to) == [kind |-> "IllegalTransition", from |-> from, to |-> to]

\* a slip: every requested state is taken over
advance_unchecked(from, to) == Ok(to)

\* the transition table of the inclusion state (specification 4.7): a caller
\* asks to advance a record; only Pending moves, and only to a terminal state
advance(from, to) ==
    IF from = "Pending" /\ to \in TerminalStates THEN Ok(to)
    ELSE Err(IllegalTransition(from, to))

\* Address::to_bech32: the human-readable part, the separator "1", then the
\* address kind and bytes in the Bech32 alphabet (one character a nibble;
\* the checksum is left out)
Bech32Charset == <<"q", "p", "z", "r", "y", "9", "x", "8",
                   "g", "f", "2", "t", "v", "d", "w", "0">>

RECURSIVE bech32_data(_)
bech32_data(b) ==
    IF b = <<>> THEN <<>>
    ELSE <<Bech32Charset[(b[1] \div 16) + 1], Bech32Charset[(b[1] % 16) + 1]>>
         \o bech32_data(Tail(b))

to_bech32(address, hrp) == hrp \o <<"1">> \o bech32_data(<<address.kind>> \o address.bytes)

\* the human-readable part of a Bech32 string: what precedes the last "1"
bech32_hrp(a) ==
    Take(a, (CHOOSE i \in 1..Len(a) :
                a[i] = "1" /\ \A j \in (i + 1)..Len(a) : a[j] # "1") - 1)

\* the human-readable part written in input_signing_data
ATOI == <<"a", "t", "o", "i">>

\* OutputMetadata::try_from(&OutputMetadataResponse): the hex ids are decoded
OutputMetadata_try_from(m) ==
    Bind(hex_decode(m.blockId, BlockIdLen), LAMBDA blk :
    Bind(hex_decode(m.transactionId, TransactionIdLen), LAMBDA t :
    Ok([block_id |-> blk.value,
        output_id |-> [transaction_id |-> t.value, index |-> m.outputIndex],
        is_spent |-> m.isSpent])))

\* OutputData::input_signing_data
input_signing_data(self) ==
    Bind(OutputMetadata_try_from(self.metadata), LAMBDA m :
    Ok([output |-> self.output,
        output_metadata |-> m.value,
        chain |-> self.chain,
        bech32_address |-> to_bech32(self.address, ATOI)]))

\* From<&OutputData> for OutputDataDto
OutputDataDto_from(value) ==
    [output_id |-> value.output_id,
     metadata |-> value.metadata,
     output |-> output_to_dto(value.output),
     amount |-> to_string(value.amount),
     is_spent |-> value.is_spent,
     address |-> [type |-> value.address.kind, pubKeyHash |-> hex_encode(value.address.bytes)],
     network_id |-> to_string(value.network_id),
     remainder |-> value.remainder,
     chain |-> value.chain]

\* AccountIdentifier
Index(n) == [variant |-> "Index", index |-> n]
Alias(a) == [variant |-> "Alias", alias |-> a]

\* a slip: the string is parsed as a wider integer and cut down to 32 bits
from_str_wide(value) ==
    IF from_str(value, U64Limbs).ok
    THEN Index(Take(from_str(value, U64Limbs).value, U32Limbs))
    ELSE Alias(value)

\* From<&str> for AccountIdentifier
AccountIdentifier_from(value) ==
    IF from_str(value, U32Limbs).ok
    THEN Index(from_str(value, U32Limbs).value)
    ELSE Alias(value)

\* From<String>, From<&String> for AccountIdentifier
AccountIdentifier_from_string(value) == AccountIdentifier_from(value)

\* From<u32> for AccountIdentifier
AccountIdentifier_from_u32(value) == Index(value)

\* serde_json::Value: what the deserializer hands over
JsonNumber(repr, n) == [type |-> "Number", repr |-> repr, n |-> n]
JsonString(str) == [type |-> "String", str |-> str]
JsonOther(type) == [type |-> type]

\* Value::as_u64: only a number held as an unsigned integer
as_u64(v) == IF v.type = "Number" /\ v.repr = "PosInt" THEN Some(v.n) ELSE None
\* Value::as_str
as_str(v) == IF v.type = "String" THEN Some(v.str) ELSE None

\* u32::try_from(u64)
u32_try_from(number) ==
    IF \A i \in (U32Limbs + 1)..U64Limbs : number[i] = 0
    THEN Ok(Take(number, U32Limbs))
    ELSE Err("TryFromIntError")

\* a slip: the number is cast to u32 instead of converted
deserialize_cast(v) ==
    IF as_u64(v) # None THEN Ok(Index(Take(as_u64(v)[1], U32Limbs)))
    ELSE IF as_str(v) = None THEN Err("AccountIdentifier is no number or string")
    ELSE Ok(AccountIdentifier_from(as_str(v)[1]))

\* Deserialize for AccountIdentifier
deserialize(v) ==
    IF as_u64(v) # None
    THEN IF u32_try_from(as_u64(v)[1]).ok
         THEN Ok(Index(u32_try_from(as_u64(v)[1]).value))
         ELSE Err("Account index is greater than u32::MAX")
    ELSE IF as_str(v) = None THEN Err("AccountIdentifier is no number or string")
    ELSE Ok(AccountIdentifier_from(as_str(v)[1]))

-----------------------------------------------------------------------------
(* The records and arguments of the account side.                          *)

SamplePayload ==
    TransactionPayload(
        RegularTransactionEssence(ScenarioNetworkId, <<Input(TxId(0), 0)>>,
                                  Repeat(204, InputsCommitmentLen),
                                  <<Output(MillionTokens)>>, None),
        <<SampleSignature>>)

SampleBlockId == Repeat(187, BlockIdLen)

TransactionDomain ==
    { Transaction(SamplePayload, b, st, <<1, 2, 3, 4, 5, 6, 7, 8>>, ScenarioNetworkId, inc) :
        b \in {None, Some(SampleBlockId)}, st \in InclusionState, inc \in BOOLEAN }

MetadataDomain ==
    { [blockId |-> hex_encode(SampleBlockId), transactionId |-> t,
       outputIndex |-> 0, isSpent |-> FALSE] :
        t \in {hex_encode(TxId(0)), <<"z", "z">>} }

OutputDataDomain ==
    { [output_id |-> [transaction_id |-> TxId(0), index |-> 0],
       metadata |-> m,
       output |-> Output(MillionTokens),
       amount |-> MillionTokens,
       is_spent |-> sp,
       address |-> [kind |-> 0, bytes |-> Repeat(a, AddressLen)],
       network_id |-> ScenarioNetworkId,
       remainder |-> FALSE,
       chain |-> ch] :
        m \in MetadataDomain, sp \in BOOLEAN, a \in {1, 255},
        ch \in {None, Some(<<44, 4218, 0, 0, 0>>)} }

\* human-readable parts of the networks a caller may work with
HrpDomain == { ATOI, <<"i", "o", "t", "a">>, <<"s", "m", "r">>, <<"r", "m", "s">> }

Alphabet == {"0", "1", "9", "+", "-", "a"}

BoundaryStrings == {
    <<"4", "2", "9", "4", "9", "6", "7", "2", "9", "5">>,
    <<"4", "2", "9", "4", "9", "6", "7", "2", "9", "6">>,
    <<"4", "2", "9", "4", "9", "6", "7", "2", "9", "4">>,
    <<"0", "4", "2", "9", "4", "9", "6", "7", "2", "9", "5">>,
    <<"+", "4", "2", "9", "4", "9", "6", "7", "2", "9", "5">>,
    <<"+", "4", "2", "9", "4", "9", "6", "7", "2", "9", "6">>,
    <<"4", "2", "9", "4", "9", "6", "7", "2", "9", "5", "0">>,
    <<"0", "0", "0", "0", "0", "0", "0", "0", "0", "0", "0", "0", "1">>,
    <<"a", "l", "i", "c", "e">>,
    <<"1", "8", "4", "4", "6", "7", "4", "4", "0", "7", "3", "7", "0", "9", "5", "5", "1", "6", "1", "6">>,
    <<"1", "a">>,
    <<" ", "1">>,
    <<"+", "0", "1">> }

StringDomain == SeqsUpTo(Alphabet, MaxStrLen) \cup BoundaryStrings

U32MaxLimbs == <<65535, 65535>>

JsonDomain ==
    { JsonNumber("PosInt", n) :
        n \in { <<0, 0, 0, 0>>, <<1, 0, 0, 0>>, <<65535, 65535, 0, 0>>,
                <<0, 0, 1, 0>>, <<7, 0, 1, 0>>, U64Max } }
    \cup { JsonNumber("NegInt", <<1, 0, 0, 0>>), JsonNumber("Float", <<1, 0, 0, 0>>) }
    \cup { JsonString(str) : str \in StringDomain }
    \cup { JsonOther(t) : t \in {"Null", "Bool", "Array", "Object"} }

payload_vars == <<essence, unlocks, payload, bytes, dto, verify>>

InitAccount ==
    /\ essence = SamplePayload.essence
    /\ unlocks = SamplePayload.unlocks
    /\ payload = None
    /\ bytes = None
    /\ dto = None
    /\ verify = FALSE
    /\ op = "init"
    /\ result = Ok(<<>>)
    /\ tx \in TransactionDomain
    /\ output_data \in OutputDataDomain
    /\ caller_hrp = ATOI
    /\ prev_state = tx.inclusion_state
    /\ input = <<>>

InitIdentifier ==
    /\ essence = SamplePayload.essence
    /\ unlocks = SamplePayload.unlocks
    /\ payload = None
    /\ bytes = None
    /\ dto = None
    /\ verify = FALSE
    /\ op = "init"
    /\ result = Ok(<<>>)
    /\ tx = IdleTx
    /\ output_data = IdleOutput
    /\ caller_hrp = ATOI
    /\ prev_state = "Pending"
    /\ input = <<>>

-----------------------------------------------------------------------------
(* Operations on the account entities.                                     *)

\* a caller asks to move the record to inclusion state `to`
Advance(to) ==
    /\ LET r == advance(tx.inclusion_state, to)
       IN  /\ result' = r
           /\ tx' = IF r.ok THEN [tx EXCEPT !.inclusion_state = r.value] ELSE tx
    /\ prev_state' = tx.inclusion_state
    /\ op' = "advance"
    /\ UNCHANGED <<payload_vars, output_data, caller_hrp, input>>

\* the record is projected for transport
TransactionToDto ==
    /\ result' = Ok(TransactionDto_from(tx))
    /\ op' = "transaction_to_dto"
    /\ UNCHANGED <<payload_vars, tx, output_data, caller_hrp, prev_state, input>>

\* a caller working with human-readable part `hrp` asks for the signing data
InputSigningData(hrp) ==
    /\ caller_hrp' = hrp
    /\ result' = input_signing_data(output_data)
    /\ op' = "input_signing_data"
    /\ UNCHANGED <<payload_vars, tx, output_data, prev_state, input>>

OutputToDto ==
    /\ result' = Ok(OutputDataDto_from(output_data))
    /\ op' = "output_to_dto"
    /\ UNCHANGED <<payload_vars, tx, output_data, caller_hrp, prev_state, input>>

FromStr(value) ==
    /\ input' = value
    /\ result' = AccountIdentifier_from(value)
    /\ op' = "from_str"
    /\ UNCHANGED <<payload_vars, tx, output_data, caller_hrp, prev_state>>

FromString(value) ==
    /\ input' = value
    /\ result' = AccountIdentifier_from_string(value)
    /\ op' = "from_string"
    /\ UNCHANGED <<payload_vars, tx, output_data, caller_hrp, prev_state>>

FromU32(value) ==
    /\ input' = value
    /\ result' = AccountIdentifier_from_u32(value)
    /\ op' = "from_u32"
    /\ UNCHANGED <<payload_vars, tx, output_data, caller_hrp, prev_state>>

Deserialize(v) ==
    /\ input' = v
    /\ result' = deserialize(v)
    /\ op' = "deserialize"
    /\ UNCHANGED <<payload_vars, tx, output_data, caller_hrp, prev_state>>

NextAccount ==
    \/ \E to \in InclusionState : Advance(to)
    \/ TransactionToDto
    \/ \E hrp \in HrpDomain : InputSigningData(hrp)
    \/ OutputToDto

NextIdentifier ==
    \/ \E value \in StringDomain : FromStr(value)
    \/ \E value \in StringDomain : FromString(value)
    \/ \E value \in {<<0, 0>>, <<1, 0>>, U32MaxLimbs} : FromU32(value)
    \/ \E v \in JsonDomain : Deserialize(v)

SpecAccount == InitAccount /\ [][NextAccount]_vars
SpecIdentifier == InitIdentifier /\ [][NextIdentifier]_vars

-----------------------------------------------------------------------------
(* Properties of the account entities.                                     *)

\* C5: inclusion_state only ever moves from Pending to Confirmed, Conflicting
\* or UnknownPruned; a terminal state never changes, and a request for a
\* change out of a terminal state is rejected and leaves the state as it was.
C5_InclusionStateTransitions ==
    [][ /\ (tx'.inclusion_state # tx.inclusion_state) =>
              (tx.inclusion_state = "Pending" /\ tx'.inclusion_state \in TerminalStates)
        /\ (tx.inclusion_state \in TerminalStates) =>
              (tx'.inclusion_state = tx.inclusion_state)
        /\ (op' = "advance" /\ tx.inclusion_state \in TerminalStates) =>
              (~result'.ok /\ tx'.inclusion_state = tx.inclusion_state)
        /\ (op' = "advance" /\ result'.ok) =>
              (tx.inclusion_state = "Pending" /\ tx'.inclusion_state = result'.value)
      ]_vars

\* a request to take a Confirmed record back to Pending was rejected
C5_Witness ==
    /\ op = "advance"
    /\ prev_state = "Confirmed"
    /\ result = Err(IllegalTransition("Confirmed", "Pending"))
    /\ tx.inclusion_state = "Confirmed"

\* C7 as stated: the Bech32 address of the signing data carries the caller's
\* human-readable part; output, chain and the converted metadata are those
\* of the record.
C7_CallerHrp ==
    (op = "input_signing_data" /\ result.ok) =>
        /\ bech32_hrp(result.value.bech32_address) = caller_hrp
        /\ result.value.bech32_address = to_bech32(output_data.address, caller_hrp)
        /\ result.value.output = output_data.output
        /\ result.value.chain = output_data.chain
        /\ Ok(result.value.output_metadata) = OutputMetadata_try_from(output_data.metadata)

-----------------------------------------------------------------------------
(* Properties of AccountIdentifier.                                        *)

U32MaxDigits == <<"4", "2", "9", "4", "9", "6", "7", "2", "9", "5">>

RECURSIVE StripZeros(_)
StripZeros(s) == IF s # <<>> /\ s[1] = "0" THEN StripZeros(Tail(s)) ELSE s

AllDigits(s) == \A i \in 1..Len(s) : s[i] \in {DigitChars[k] : k \in 1..10}

RECURSIVE DigitsLessEq(_, _)
\* a <= b for digit strings of one length
DigitsLessEq(a, b) ==
    IF a = <<>> THEN TRUE
    ELSE IF a[1] # b[1] THEN HexValue(a[1]) < HexValue(b[1])
    ELSE DigitsLessEq(Tail(a), Tail(b))

\* the whole string is decimal digits and the number they write fits a u32
IsBase10U32(s) ==
    /\ s # <<>>
    /\ AllDigits(s)
    /\ \/ Len(StripZeros(s)) < Len(U32MaxDigits)
       \/ /\ Len(StripZeros(s)) = Len(U32MaxDigits)
          /\ DigitsLessEq(StripZeros(s), U32MaxDigits)

\* the canonical decimal form of the number the digits of s write
Canonical(s) == IF StripZeros(s) = <<>> THEN <<"0">> ELSE StripZeros(s)

\* what Rust's u32::from_str accepts: the same, after an optional "+"
IsRustU32(s) == IsBase10U32(s) \/ (s # <<>> /\ s[1] = "+" /\ IsBase10U32(Tail(s)))
RustDigits(s) == IF s # <<>> /\ s[1] = "+" THEN Tail(s) ELSE s

\* C6 as stated: Index(n) exactly when the whole string is a base-10 u32.
C6_AsStated ==
    op = "from_str" =>
        /\ (result.variant = "Index") <=> IsBase10U32(input)
        /\ (result.variant = "Index") => to_string(result.index) = Canonical(input)
        /\ (result.variant = "Alias") => result.alias = input

\* C6, amended: Index(n) exactly when the string is an optional "+" followed
\* by one or more decimal digits that write a value n <= u32::MAX; in every
\* other case Alias(s) with s unchanged.  The conversion never fails.
C6_IndexIffU32 ==
    op = "from_str" =>
        /\ result.variant \in {"Index", "Alias"}
        /\ (result.variant = "Index") <=> IsRustU32(input)
        /\ (result.variant = "Index") =>
               /\ Len(result.index) = U32Limbs
               /\ to_string(result.index) = Canonical(RustDigits(input))
        /\ (result.variant = "Alias") => result.alias = input
        /\ (input = <<"0">>) => result = Index(<<0, 0>>)
        /\ (input = U32MaxDigits) => result = Index(U32MaxLimbs)
        /\ (input = <<"4", "2", "9", "4", "9", "6", "7", "2", "9", "6">>) => result = Alias(input)
        /\ (input = <<"a", "l", "i", "c", "e">>) => result = Alias(input)

\* "+1" was converted, and became Index(1)
C6_Witness ==
    /\ op = "from_str"
    /\ input = <<"+", "1">>
    /\ result = Index(<<1, 0>>)

====
